---- MODULE Spec2Model ----
(***************************************************************************)
(* Model of neosr/archs/arch_util.py: Upsample, pixel_unshuffle,           *)
(* _no_grad_trunc_normal_, drop_path / DropPath and store_neosr_defaults.  *)
(* Each component has its own next-state relation over the shared state.   *)
(***************************************************************************)
EXTENDS Integers, Sequences, FiniteSets, TLC

VARIABLES up, cls, inst, opt, dp, fw, pu, tn

vars == <<up, cls, inst, opt, dp, fw, pu, tn>>

(* ---------------------------------------------------------------------- *)
(* Bounds                                                                  *)
(* ---------------------------------------------------------------------- *)
MaxScale == 17
MaxNumFeat == 3

(* ---------------------------------------------------------------------- *)
(* Upsample                                                                *)
(* ---------------------------------------------------------------------- *)

\* Python's & on unbounded two's-complement integers.
RECURSIVE BitAnd(_, _)
BitAnd(a, b) ==
    IF a = 0 \/ b = 0 THEN 0
    ELSE IF a = -1 THEN b
    ELSE IF b = -1 THEN a
    ELSE (a % 2) * (b % 2) + 2 * BitAnd(a \div 2, b \div 2)

\* a loop bound one stage too long: int(math.log2(n)) + 1
RECURSIVE Log2_plus1(_)
Log2_plus1(n) == IF n <= 1 THEN 1 ELSE 1 + Log2_plus1(n \div 2)

\* int(math.log2(n)) for n >= 1; math.log2 raises ValueError for n <= 0.
RECURSIVE Log2(_)
Log2(n) == IF n <= 1 THEN 0 ELSE 1 + Log2(n \div 2)

Conv2d(cin, cout) == [kind |-> "Conv2d", cin |-> cin, cout |-> cout, r |-> 0]

PixelShuffleStage(r) == [kind |-> "PixelShuffle", cin |-> 0, cout |-> 0, r |-> r]

\* the list m after `for _ in range(n)` appended a Conv2d and a PixelShuffle(2)
RECURSIVE Pow2Stages(_, _)
Pow2Stages(n, num_feat) ==
    IF n <= 0 THEN <<>>
    ELSE Pow2Stages(n - 1, num_feat)
           \o <<Conv2d(num_feat, 4 * num_feat), PixelShuffleStage(2)>>

NoUpsample == [status |-> "none", scale |-> 0, num_feat |-> 0, m |-> <<>>,
               error |-> "none"]

\* Upsample.__init__: the outcome of one construction
Upsample_init(scale, num_feat) ==
    IF BitAnd(scale, scale - 1) = 0
    THEN IF scale <= 0
         THEN [status |-> "raised", scale |-> scale, num_feat |-> num_feat,
               m |-> <<>>, error |-> "ValueError: math domain error"]
         ELSE [status |-> "built", scale |-> scale, num_feat |-> num_feat,
               m |-> Pow2Stages(Log2(scale), num_feat), error |-> "none"]
    ELSE IF scale = 3
    THEN [status |-> "built", scale |-> scale, num_feat |-> num_feat,
          m |-> <<Conv2d(num_feat, 9 * num_feat), PixelShuffleStage(3)>>,
          error |-> "none"]
    ELSE [status |-> "raised", scale |-> scale, num_feat |-> num_feat,
          m |-> <<>>,
          error |-> "ValueError: scale is not supported. Supported scales: 2^n and 3."]

ConstructUpsample(scale, num_feat) ==
    /\ up' = Upsample_init(scale, num_feat)
    /\ UNCHANGED <<cls, inst, opt, dp, fw, pu, tn>>

NextUpsample ==
    \E scale \in (0 - MaxScale)..MaxScale, num_feat \in 1..MaxNumFeat :
        ConstructUpsample(scale, num_feat)


(* ---------------------------------------------------------------------- *)
(* store_neosr_defaults                                                    *)
(* ---------------------------------------------------------------------- *)
MaxPos == 1

Keys == {"x", "y", "z"}

Vals == {5, 9}

\* a dict is a function on its set of keys
EmptyDict == [k \in {} |-> 0]

\* {**d1, **d2}
Merge(d1, d2) ==
    [k \in (DOMAIN d1) \cup (DOMAIN d2) |->
        IF k \in DOMAIN d2 THEN d2[k] ELSE d1[k]]

\* del d[k]
Del(d, k) == [j \in (DOMAIN d) \ {k} |-> d[j]]

None == [isNone |-> TRUE, v |-> <<>>]

Some(v) == [isNone |-> FALSE, v |-> v]

Param(name, kind, hasDefault, default) ==
    [name |-> name, kind |-> kind, hasDefault |-> hasDefault, default |-> default]

\* The constructors that get decorated:
\*   A: def __init__(self, x=1, y=2)
\*   B: def __init__(self, x, *, y=2, z=3)
\*   C: def __init__(self, x=1, **kw)
\*   D: def __init__(self, x, y=2, *, z)
CtorA == [params |-> <<Param("x", "pos", TRUE, 1), Param("y", "pos", TRUE, 2)>>,
          varkw |-> FALSE]

CtorB == [params |-> <<Param("x", "pos", FALSE, 0), Param("y", "kwonly", TRUE, 2),
                       Param("z", "kwonly", TRUE, 3)>>,
          varkw |-> FALSE]

CtorC == [params |-> <<Param("x", "pos", TRUE, 1)>>, varkw |-> TRUE]

CtorD == [params |-> <<Param("x", "pos", FALSE, 0), Param("y", "pos", TRUE, 2),
                       Param("z", "kwonly", FALSE, 0)>>,
          varkw |-> FALSE]

Ctors == {CtorA, CtorB, CtorC, CtorD}

Item(k, v) == [k |-> k, v |-> v]

\* the extra_parameters mappings, as their items in iteration order
Extras == {<<>>, <<Item("z", 5)>>, <<Item("z", 5), Item("y", 9)>>,
           <<Item("x", 5), Item("z", 9)>>}

RECURSIVE ToDict(_)
ToDict(items) ==
    IF items = <<>> THEN EmptyDict
    ELSE Merge([k \in {Head(items).k} |-> Head(items).v], ToDict(Tail(items)))

PosParams(ctor) == SelectSeq(ctor.params, LAMBDA p : p.kind = "pos")

KwOnlyParams(ctor) == SelectSeq(ctor.params, LAMBDA p : p.kind = "kwonly")

NamesOf(ps) == [i \in 1..Len(ps) |-> ps[i].name]

\* inspect.getfullargspec(old_init)
getfullargspec(ctor) ==
    LET pos == PosParams(ctor)
        kwo == KwOnlyParams(ctor)
        posd == SelectSeq(pos, LAMBDA p : p.hasDefault)
        kwod == SelectSeq(kwo, LAMBDA p : p.hasDefault)
    IN [args |-> <<"self">> \o NamesOf(pos),
        defaults |-> IF posd = <<>> THEN None
                     ELSE Some([i \in 1..Len(posd) |-> posd[i].default]),
        kwonlyargs |-> NamesOf(kwo),
        kwonlydefaults |->
            IF kwod = <<>> THEN None
            ELSE Some([k \in {kwod[i].name : i \in 1..Len(kwod)} |->
                        (CHOOSE p \in {kwod[i] : i \in 1..Len(kwod)} :
                            p.name = k).default]),
        varkw |-> ctor.varkw]

\* s[-n:] for n >= 1
Suffix(s, n) ==
    IF n >= Len(s) THEN s ELSE SubSeq(s, Len(s) - n + 1, Len(s))

\* s[:n]
Prefix(s, n) == IF n >= Len(s) THEN s ELSE SubSeq(s, 1, n)

Min(a, b) == IF a <= b THEN a ELSE b

\* dict(zip(names, values, strict=False))
ZipDict(names, values) ==
    LET n == Min(Len(names), Len(values))
    IN [k \in {names[i] : i \in 1..n} |->
            values[CHOOSE i \in 1..n :
                     names[i] = k /\ \A j \in 1..n : names[j] = k => j <= i]]

\* get_arg_defaults with the defaults zipped to the first, not the last, names
get_arg_defaults_prefix(spec) ==
    LET d0 == IF ~spec.kwonlydefaults.isNone THEN spec.kwonlydefaults.v
              ELSE EmptyDict
    IN IF ~spec.defaults.isNone
       THEN Merge(d0, ZipDict(Prefix(spec.args, Len(spec.defaults.v)),
                              spec.defaults.v))
       ELSE d0

get_arg_defaults(spec) ==
    LET d0 == IF ~spec.kwonlydefaults.isNone THEN spec.kwonlydefaults.v
              ELSE EmptyDict
    IN IF ~spec.defaults.isNone
       THEN Merge(d0, ZipDict(Suffix(spec.args, Len(spec.defaults.v)),
                              spec.defaults.v))
       ELSE d0

NoClass == [decorated |-> FALSE, ctor |-> CtorA, extra_parameters |-> <<>>,
            defaults |-> EmptyDict, declared |-> CtorA]

\* store_neosr_defaults(extra_parameters=extra)(cls): inner
inner(ctor, extra) ==
    [decorated |-> TRUE, ctor |-> ctor, extra_parameters |-> extra,
     defaults |-> get_arg_defaults(getfullargspec(ctor)), declared |-> ctor]

\* the loop of new_init that skips the comparison and only deletes
RECURSIVE remove_extra_unchecked(_, _)
remove_extra_unchecked(items, kwargs) ==
    IF items = <<>> THEN [raised |-> FALSE, key |-> "", kwargs |-> kwargs]
    ELSE IF Head(items).k \in DOMAIN kwargs
         THEN remove_extra_unchecked(Tail(items), Del(kwargs, Head(items).k))
         ELSE remove_extra_unchecked(Tail(items), kwargs)

\* new_init: for k, v in extra_parameters.items(): ...
RECURSIVE remove_extra(_, _)
remove_extra(items, kwargs) ==
    IF items = <<>> THEN [raised |-> FALSE, key |-> "", kwargs |-> kwargs]
    ELSE IF Head(items).k \in DOMAIN kwargs
         THEN IF kwargs[Head(items).k] # Head(items).v
              THEN [raised |-> TRUE, key |-> Head(items).k, kwargs |-> kwargs]
              ELSE remove_extra(Tail(items), Del(kwargs, Head(items).k))
         ELSE remove_extra(Tail(items), kwargs)

\* the merge with the fixed extra parameters applied after the defaults
hyperparameters_extra_last(extra, defaults, kwargs) ==
    Merge(Merge(defaults, extra), kwargs)

\* {**extra_parameters, **defaults, **kwargs}
hyperparameters(extra, defaults, kwargs) ==
    Merge(Merge(extra, defaults), kwargs)

\* Binding a call f(self, *posargs, **kwargs) to the constructor's parameters:
\* TRUE when Python accepts the call, FALSE when it raises TypeError.
Binds(ctor, posargs, kwargs) ==
    LET pos == PosParams(ctor)
        kwo == KwOnlyParams(ctor)
        bound == {pos[i].name : i \in 1..Min(Len(posargs), Len(pos))}
        named == {ctor.params[i].name : i \in 1..Len(ctor.params)}
        required == {ctor.params[i].name : i \in
                        {j \in 1..Len(ctor.params) : ~ctor.params[j].hasDefault}}
    IN /\ Len(posargs) <= Len(pos)
       /\ bound \cap DOMAIN kwargs = {}
       /\ (ctor.varkw \/ DOMAIN kwargs \subseteq named)
       /\ required \subseteq bound \cup DOMAIN kwargs

NoInstance ==
    [called |-> FALSE, args |-> <<>>, kwargs |-> EmptyDict, status |-> "none",
     key |-> "", hyperparameters |-> None, old_init_called |-> FALSE,
     old_init_kwargs |-> EmptyDict, old_init_saw |-> None]

\* new_init that forwards the caller's kwargs untrimmed
new_init_untrimmed(c, posargs, kwargs) ==
    LET base == [NoInstance EXCEPT !.called = TRUE, !.args = posargs,
                                   !.kwargs = kwargs]
        r == remove_extra(c.extra_parameters, kwargs)
    IN IF Len(posargs) > 0 THEN [base EXCEPT !.status = "TypeError"]
       ELSE IF r.raised THEN [base EXCEPT !.status = "ValueError", !.key = r.key]
       ELSE LET rec == hyperparameters(ToDict(c.extra_parameters), c.defaults,
                                       r.kwargs)
            IN [base EXCEPT
                  !.hyperparameters = Some(rec),
                  !.old_init_called = TRUE,
                  !.old_init_kwargs = kwargs,
                  !.old_init_saw = Some(rec),
                  !.status = IF Binds(c.ctor, <<>>, kwargs) THEN "ok"
                             ELSE "TypeError"]

\* Cls(*posargs, **kwargs) on the decorated class: new_init(self, **kwargs)
new_init(c, posargs, kwargs) ==
    LET base == [NoInstance EXCEPT !.called = TRUE, !.args = posargs,
                                   !.kwargs = kwargs]
        r == remove_extra(c.extra_parameters, kwargs)
    IN IF Len(posargs) > 0
       THEN \* new_init takes only self positionally
            [base EXCEPT !.status = "TypeError"]
       ELSE IF r.raised
       THEN [base EXCEPT !.status = "ValueError", !.key = r.key]
       ELSE LET rec == hyperparameters(ToDict(c.extra_parameters), c.defaults,
                                       r.kwargs)
            IN [base EXCEPT
                  !.hyperparameters = Some(rec),
                  !.old_init_called = TRUE,
                  !.old_init_kwargs = r.kwargs,
                  !.old_init_saw = Some(rec),
                  !.status = IF Binds(c.ctor, <<>>, r.kwargs) THEN "ok"
                             ELSE "TypeError"]

\* the decorator applied to a class at its definition
Decorate(ctor, extra) ==
    /\ cls' = inner(ctor, extra)
    /\ inst' = NoInstance
    /\ UNCHANGED <<up, opt, dp, fw, pu, tn>>

\* old_init.__defaults__ rebound after decoration: every positional default
\* becomes v (the record keeps the defaults read by inner)
RebindDefaults(v) ==
    /\ cls.decorated
    /\ \E i \in 1..Len(cls.ctor.params) :
          cls.ctor.params[i].kind = "pos" /\ cls.ctor.params[i].hasDefault
    /\ cls' = [cls EXCEPT !.ctor.params =
                 [i \in 1..Len(cls.ctor.params) |->
                    IF cls.ctor.params[i].kind = "pos" /\ cls.ctor.params[i].hasDefault
                    THEN [cls.ctor.params[i] EXCEPT !.default = v]
                    ELSE cls.ctor.params[i]]]
    /\ UNCHANGED <<up, inst, opt, dp, fw, pu, tn>>

Instantiate(posargs, kwargs) ==
    /\ cls.decorated
    /\ inst' = new_init(cls, posargs, kwargs)
    /\ UNCHANGED <<up, cls, opt, dp, fw, pu, tn>>

RECURSIVE SeqsUpTo(_, _)
SeqsUpTo(S, n) ==
    IF n = 0 THEN {<<>>}
    ELSE LET shorter == SeqsUpTo(S, n - 1)
         IN shorter \cup {Append(s, v) : s \in shorter, v \in S}

Dicts == UNION {[D -> Vals] : D \in SUBSET Keys}

NextHyper ==
    \/ \E ctor \in Ctors, extra \in Extras : Decorate(ctor, extra)
    \/ \E v \in Vals : RebindDefaults(v)
    \/ \E posargs \in SeqsUpTo(Vals, MaxPos), kwargs \in Dicts :
          Instantiate(posargs, kwargs)

(* ---------------------------------------------------------------------- *)
(* net_opt, drop_path, DropPath                                            *)
(* ---------------------------------------------------------------------- *)
MaxBatch == 2
MaxElems == 2

\* drop_prob takes the values n / ProbDen, n in 0..ProbDen
ProbDen == 4

\* first element of the input tensors
XBases == {-2, 0, 1}

\* the run configuration parse_options returns: whether --input was given and
\* whether opt["datasets"] has a "train" entry
Configs == [input_given : BOOLEAN, train_dataset : BOOLEAN]

net_opt(o) ==
    IF ~o.input_given
    THEN [upscale |-> "opt.scale",
          training |-> IF o.train_dataset THEN TRUE ELSE FALSE]
    ELSE [upscale |-> "args.scale", training |-> FALSE]

\* exact rationals n / d
Frac(n, d) == [n |-> n, d |-> d]

FracEq(a, b) == a.n * b.d = b.n * a.d

\* a tensor of shape (B, N): a sequence of B samples of N elements each
Tensors ==
    {[b \in 1..B |-> [i \in 1..N |-> base + (b - 1) * N + (i - 1)]] :
        B \in 1..MaxBatch, N \in 1..MaxElems, base \in XBases}

Lift(x) == [b \in 1..Len(x) |-> [i \in 1..Len(x[b]) |-> Frac(x[b][i], 1)]]

\* the outcomes bernoulli_(keep_prob) can leave in a tensor of n elements,
\* keep_prob = kp / ProbDen
RECURSIVE Bernoulli(_, _)
Bernoulli(n, kp) ==
    IF n = 0 THEN {<<>>}
    ELSE {Append(m, o) : m \in Bernoulli(n - 1, kp),
                         o \in IF kp <= 0 THEN {0}
                               ELSE IF kp >= ProbDen THEN {1} ELSE {0, 1}}

NoCall ==
    [called |-> FALSE, via |-> "none", x |-> <<>>, drop_prob |-> 0,
     training |-> FALSE, scale_by_keep |-> FALSE, out |-> <<>>, same |-> FALSE,
     draws |-> 0, mask |-> <<>>, divided |-> FALSE]

Passthrough(x, p, training, sbk) ==
    [NoCall EXCEPT !.called = TRUE, !.x = x, !.drop_prob = p,
                   !.training = training, !.scale_by_keep = sbk,
                   !.out = Lift(x), !.same = TRUE]

Dropped(x, p, training, sbk, mask, divide) ==
    LET keep_prob == ProbDen - p
        random_tensor == [b \in 1..Len(x) |->
                            IF divide THEN Frac(mask[b] * ProbDen, keep_prob)
                            ELSE Frac(mask[b], 1)]
    IN [NoCall EXCEPT !.called = TRUE, !.x = x, !.drop_prob = p,
                      !.training = training, !.scale_by_keep = sbk,
                      !.out = [b \in 1..Len(x) |-> [i \in 1..Len(x[b]) |->
                                  Frac(x[b][i] * random_tensor[b].n,
                                       random_tensor[b].d)]],
                      !.same = FALSE, !.draws = Len(mask), !.mask = mask,
                      !.divided = divide]

\* drop_path whose early return needs both conditions
drop_path_and(x, p, training, sbk, mask) ==
    IF p = 0 /\ ~training THEN Passthrough(x, p, training, sbk)
    ELSE Dropped(x, p, training, sbk, mask, (ProbDen - p) > 0 /\ sbk)

\* drop_path that never rescales the kept samples
drop_path_noscale(x, p, training, sbk, mask) ==
    IF p = 0 \/ ~training THEN Passthrough(x, p, training, sbk)
    ELSE Dropped(x, p, training, sbk, mask, FALSE)

\* drop_path(x, drop_prob = p / ProbDen, training, scale_by_keep), mask being
\* what bernoulli_ leaves in random_tensor
drop_path(x, p, training, sbk, mask) ==
    IF p = 0 \/ ~training THEN Passthrough(x, p, training, sbk)
    ELSE Dropped(x, p, training, sbk, mask, (ProbDen - p) > 0 /\ sbk)

\* what the random source would give a call that draws one outcome per sample
Masks(x, p) == Bernoulli(Len(x), ProbDen - p)

NoDropPath ==
    [constructed |-> FALSE, drop_prob |-> 0, scale_by_keep |-> FALSE,
     training |-> FALSE, net_opt_training |-> FALSE, toggled |-> FALSE]

\* DropPath.__init__; net_opt_training remembers what net_opt() returned
DropPath_init(p, sbk, o) ==
    [constructed |-> TRUE, drop_prob |-> p, scale_by_keep |-> sbk,
     training |-> net_opt(o).training,
     net_opt_training |-> net_opt(o).training, toggled |-> FALSE]

\* a forward that asks net_opt() again
forward_training_requery(d, o) == net_opt(o).training

\* the training argument DropPath.forward passes to drop_path
forward_training(d, o) == d.training

\* the arguments of a direct call of drop_path
DropPathInputs ==
    {[NoCall EXCEPT !.via = "input", !.x = x, !.drop_prob = p,
                    !.training = training, !.scale_by_keep = sbk] :
        x \in Tensors, p \in 0..ProbDen, training \in BOOLEAN, sbk \in BOOLEAN}

\* a direct call of drop_path
CallDropPath ==
    /\ fw.via = "input"
    /\ \E mask \in Masks(fw.x, fw.drop_prob) :
          fw' = [drop_path(fw.x, fw.drop_prob, fw.training, fw.scale_by_keep, mask)
                    EXCEPT !.via = "drop_path"]
    /\ UNCHANGED <<up, cls, inst, opt, dp, pu, tn>>

\* the run configuration changes (another options file, another command line)
SetConfig(o) ==
    /\ opt' = o
    /\ UNCHANGED <<up, cls, inst, dp, fw, pu, tn>>

ConstructDropPath(p, sbk) ==
    /\ ~dp.constructed
    /\ dp' = DropPath_init(p, sbk, opt)
    /\ UNCHANGED <<up, cls, inst, opt, fw, pu, tn>>

\* module.train(mode) / module.eval(), inherited from nn.Module: sets
\* self.training
Train(mode) ==
    /\ dp.constructed
    /\ dp' = [dp EXCEPT !.training = mode, !.toggled = TRUE]
    /\ UNCHANGED <<up, cls, inst, opt, fw, pu, tn>>

Forward(x) ==
    /\ dp.constructed
    /\ LET t == forward_training(dp, opt)
       IN \E mask \in Masks(x, dp.drop_prob) :
             fw' = [drop_path(x, dp.drop_prob, t, dp.scale_by_keep, mask)
                       EXCEPT !.via = "forward"]
    /\ UNCHANGED <<up, cls, inst, opt, dp, pu, tn>>

NextDropPathFn == CallDropPath

NextDropPath ==
    \/ \E o \in Configs : SetConfig(o)
    \/ \E p \in 0..ProbDen, sbk \in BOOLEAN : ConstructDropPath(p, sbk)
    \/ \E mode \in BOOLEAN : Train(mode)
    \/ \E x \in Tensors : Forward(x)

(* ---------------------------------------------------------------------- *)
(* pixel_unshuffle                                                         *)
(* ---------------------------------------------------------------------- *)
MaxB == 2
MaxC == 2
MaxSide == 4
MaxDown == 2

RECURSIVE Prod(_)
Prod(shape) == IF shape = <<>> THEN 1 ELSE Head(shape) * Prod(Tail(shape))

\* row-major stride of dimension k (1-based) of a contiguous tensor
Stride(shape, k) == Prod(SubSeq(shape, k + 1, Len(shape)))

\* the 0-based multi-index of the 0-based flat offset f
Unravel(f, shape) ==
    [k \in 1..Len(shape) |-> (f \div Stride(shape, k)) % shape[k]]

RECURSIVE RavelFrom(_, _, _)
RavelFrom(idx, shape, k) ==
    IF k > Len(shape) THEN 0
    ELSE idx[k] * Stride(shape, k) + RavelFrom(idx, shape, k + 1)

\* the 0-based flat offset of a 0-based multi-index
Ravel(idx, shape) == RavelFrom(idx, shape, 1)

\* a tensor: its shape and its elements in logical (row-major) order
Tensor(shape, data) == [shape |-> shape, data |-> data]

\* x.view(*shape)
view(t, shape) == Tensor(shape, t.data)

\* t.permute(*perm), dimensions numbered from 0 as in the source
permute(t, perm) ==
    LET ns == [k \in 1..Len(perm) |-> t.shape[perm[k] + 1]]
    IN Tensor(ns,
              [f \in 1..Prod(ns) |->
                 LET ni == Unravel(f - 1, ns)
                     oi == [d \in 1..Len(perm) |->
                              ni[CHOOSE k \in 1..Len(perm) : perm[k] + 1 = d]]
                 IN t.data[Ravel(oi, t.shape) + 1]])

\* t.reshape(*shape): the elements in logical order under the new shape
reshape(t, shape) == Tensor(shape, t.data)

NoTensor == Tensor(<<>>, <<>>)

\* pixel_unshuffle with the two block offsets permuted the other way round
pixel_unshuffle_swapped(x, scale) ==
    LET b == x.shape[1]
        c == x.shape[2]
        hh == x.shape[3]
        hw == x.shape[4]
        out_channel == c * (scale * scale)
    IN IF ~(hh % scale = 0 /\ hw % scale = 0)
       THEN [status |-> "AssertionError", out |-> NoTensor]
       ELSE LET h == hh \div scale
                w == hw \div scale
                x_view == view(x, <<b, c, h, scale, w, scale>>)
            IN [status |-> "ok",
                out |-> reshape(permute(x_view, <<0, 1, 5, 3, 2, 4>>),
                                <<b, out_channel, h, w>>)]

pixel_unshuffle(x, scale) ==
    LET b == x.shape[1]
        c == x.shape[2]
        hh == x.shape[3]
        hw == x.shape[4]
        out_channel == c * (scale * scale)
    IN IF ~(hh % scale = 0 /\ hw % scale = 0)
       THEN [status |-> "AssertionError", out |-> NoTensor]
       ELSE LET h == hh \div scale
                w == hw \div scale
                x_view == view(x, <<b, c, h, scale, w, scale>>)
            IN [status |-> "ok",
                out |-> reshape(permute(x_view, <<0, 1, 3, 5, 2, 4>>),
                                <<b, out_channel, h, w>>)]

Fills == {"arange", "mod3"}

InputTensor(shape, fill) ==
    Tensor(shape, [f \in 1..Prod(shape) |-> IF fill = "arange" THEN f ELSE f % 3])

NoUnshuffle == [status |-> "none", x |-> NoTensor, scale |-> 1, out |-> NoTensor]

UnshuffleInputs ==
    {[NoUnshuffle EXCEPT !.status = "input",
                         !.x = InputTensor(<<b, c, hh, hw>>, fill),
                         !.scale = scale] :
        b \in 1..MaxB, c \in 1..MaxC, hh \in 1..MaxSide, hw \in 1..MaxSide,
        scale \in 1..MaxDown, fill \in Fills}

CallPixelUnshuffle ==
    /\ pu.status = "input"
    /\ LET r == pixel_unshuffle(pu.x, pu.scale)
       IN pu' = [pu EXCEPT !.status = r.status, !.out = r.out]
    /\ UNCHANGED <<up, cls, inst, opt, dp, fw, tn>>

NextUnshuffle == CallPixelUnshuffle

(* ---------------------------------------------------------------------- *)
(* _no_grad_trunc_normal_                                                  *)
(* ---------------------------------------------------------------------- *)
\* Floating point is modelled on a grid. Tensor values are integers in units of
\* 1 / ZRes. A probability (and its image 2p - 1) is represented by its level:
\* the grid point l stands for norm_cdf(l / ZRes); the levels -Sat and Sat stand
\* for the values that round to exactly 0.0 and 1.0.
MaxMean == 3
MaxStd == 2
MaxEdge == 1
MaxTLen == 1
ZRes == 1

Sat == 3 * ZRes

\* what one rounding can add to the result of erfinv, in grid units
RoundingErrors == {-1, 0, 1}

Fin(v) == [k |-> "fin", v |-> v]

PosInf == [k |-> "inf", v |-> 0]

NegInf == [k |-> "-inf", v |-> 0]

NaN == [k |-> "nan", v |-> 0]

\* norm_cdf((num) / std): the level of the result; it saturates in the tails
norm_cdf(num, std) ==
    LET x == (num * ZRes) \div std
    IN IF x >= Sat THEN Sat ELSE IF x <= 0 - Sat THEN 0 - Sat ELSE x

\* tensor.uniform_(2 * low - 1, 2 * up - 1): the levels one element can get
uniform_(low, upper) == low..upper

\* tensor.erfinv_() on an element of level l, e being the rounding error:
\* the result in units of 1 / (ZRes * sqrt(2)); erfinv(1) = inf, erfinv(-1) = -inf
erfinv_(l, e) ==
    IF l > Sat \/ l < 0 - Sat THEN NaN
    ELSE IF l = Sat THEN PosInf
    ELSE IF l = 0 - Sat THEN NegInf
    ELSE Fin(l + e)

\* tensor.mul_(std * math.sqrt(2.0)), std > 0
mul_(t, std) == IF t.k = "fin" THEN Fin(t.v * std) ELSE t

\* tensor.add_(mean)
add_(t, mean) == IF t.k = "fin" THEN Fin(t.v + mean * ZRes) ELSE t

\* a clamp_ that leaves the element as it is
clamp_none(t, a, b) == t

\* tensor.clamp_(min=a, max=b)
clamp_(t, a, b) ==
    IF t.k = "nan" THEN t
    ELSE IF t.k = "inf" THEN Fin(b * ZRes)
    ELSE IF t.k = "-inf" THEN Fin(a * ZRes)
    ELSE IF t.v < a * ZRes THEN Fin(a * ZRes)
    ELSE IF t.v > b * ZRes THEN Fin(b * ZRes)
    ELSE t

\* the condition of the warning
mean_far(mean, std, a, b) == (mean < a - 2 * std) \/ (mean > b + 2 * std)

NoTrunc == [status |-> "none", mean |-> 0, std |-> 1, a |-> 0, b |-> 1,
            tensor |-> <<>>, warned |-> FALSE]

TruncInputs ==
    {[NoTrunc EXCEPT !.status = "input", !.mean = mean, !.std = std, !.a = a,
                     !.b = b, !.tensor = [i \in 1..n |-> Fin(0)]] :
        mean \in (0 - MaxMean)..MaxMean, std \in 1..MaxStd,
        a \in (0 - MaxEdge)..MaxEdge, b \in (0 - MaxEdge)..MaxEdge,
        n \in 1..MaxTLen}

\* _no_grad_trunc_normal_(tensor, mean, std, a, b); draws[i] is the uniform
\* level and the rounding error of element i
trunc_normal(t, draws) ==
    [t EXCEPT !.status = "returned",
              !.warned = mean_far(t.mean, t.std, t.a, t.b),
              !.tensor = [i \in 1..Len(t.tensor) |->
                            clamp_(add_(mul_(erfinv_(draws[i][1], draws[i][2]),
                                             t.std),
                                        t.mean),
                                   t.a, t.b)]]

CallTruncNormal ==
    /\ tn.status = "input"
    /\ tn.a < tn.b
    /\ LET low == norm_cdf(tn.a - tn.mean, tn.std)
           upper == norm_cdf(tn.b - tn.mean, tn.std)
       IN \E draws \in [1..Len(tn.tensor) ->
                          uniform_(low, upper) \X RoundingErrors] :
             tn' = trunc_normal(tn, draws)
    /\ UNCHANGED <<up, cls, inst, opt, dp, fw, pu>>

NextTrunc == CallTruncNormal

(* ---------------------------------------------------------------------- *)
(* Initial state and specifications                                        *)
(* ---------------------------------------------------------------------- *)
TrainingConfig == [input_given |-> FALSE, train_dataset |-> TRUE]

Init ==
    /\ up = NoUpsample
    /\ cls = NoClass
    /\ inst = NoInstance
    /\ opt = TrainingConfig
    /\ dp = NoDropPath
    /\ fw = NoCall
    /\ pu = NoUnshuffle
    /\ tn = NoTrunc

\* the arguments of one call of drop_path are drawn
InitDropPathFn ==
    /\ up = NoUpsample
    /\ cls = NoClass
    /\ inst = NoInstance
    /\ opt = TrainingConfig
    /\ dp = NoDropPath
    /\ fw \in DropPathInputs
    /\ pu = NoUnshuffle
    /\ tn = NoTrunc

\* the arguments of one call of pixel_unshuffle are drawn
InitUnshuffle ==
    /\ up = NoUpsample
    /\ cls = NoClass
    /\ inst = NoInstance
    /\ opt = TrainingConfig
    /\ dp = NoDropPath
    /\ fw = NoCall
    /\ pu \in UnshuffleInputs
    /\ tn = NoTrunc

\* the arguments of one call of _no_grad_trunc_normal_ are drawn
InitTrunc ==
    /\ up = NoUpsample
    /\ cls = NoClass
    /\ inst = NoInstance
    /\ opt = TrainingConfig
    /\ dp = NoDropPath
    /\ fw = NoCall
    /\ pu = NoUnshuffle
    /\ tn \in TruncInputs

SpecUpsample == Init /\ [][NextUpsample]_vars

SpecHyper == Init /\ [][NextHyper]_vars

SpecDropPathFn == InitDropPathFn /\ [][NextDropPathFn]_vars

SpecDropPath == Init /\ [][NextDropPath]_vars

SpecUnshuffle == InitUnshuffle /\ [][NextUnshuffle]_vars

SpecTrunc == InitTrunc /\ [][NextTrunc]_vars

(* ---------------------------------------------------------------------- *)
(* Claims: Upsample                                                        *)
(* ---------------------------------------------------------------------- *)

\* n = 2^k for some k >= 0
RECURSIVE IsPow2(_)
IsPow2(n) == IF n <= 0 THEN FALSE
             ELSE IF n = 1 THEN TRUE
             ELSE n % 2 = 0 /\ IsPow2(n \div 2)

DescriptiveError ==
    "ValueError: scale is not supported. Supported scales: 2^n and 3."

ExtraOf == ToDict(cls.extra_parameters)

\* the defaults the constructor declared when it was decorated, read off its
\* parameter list
DeclaredDefaults ==
    LET ps == cls.declared.params
        withDefault == {i \in 1..Len(ps) : ps[i].hasDefault}
    IN [k \in {ps[i].name : i \in withDefault} |->
          ps[CHOOSE i \in withDefault : ps[i].name = k].default]

\* the caller's keyword arguments without the keys of the extra parameters
RemainingKwargs ==
    [k \in (DOMAIN inst.kwargs) \ (DOMAIN ExtraOf) |-> inst.kwargs[k]]

\* the caller's keywords whose value contradicts a fixed extra parameter
Conflicts ==
    {k \in (DOMAIN ExtraOf) \cap (DOMAIN inst.kwargs) : inst.kwargs[k] # ExtraOf[k]}

RecordKeysAreUnion ==
    DOMAIN inst.hyperparameters.v =
        (DOMAIN ExtraOf) \cup (DOMAIN DeclaredDefaults) \cup (DOMAIN inst.kwargs)

\* C2 (as stated): on every successful instantiation the record's keys are the
\* union of the extra keys, the declared-default keys and the caller's keyword
\* keys, and every extra key carries its fixed value.
C2_Claim ==
    inst.status = "ok" =>
        /\ RecordKeysAreUnion
        /\ \A k \in DOMAIN ExtraOf : inst.hyperparameters.v[k] = ExtraOf[k]

\* C2 (amended): the keys are that union; an extra key carries its fixed value
\* unless the constructor declares a default for it, and then it carries the
\* declared default.
C2_Amended ==
    inst.status = "ok" =>
        /\ RecordKeysAreUnion
        /\ \A k \in DOMAIN ExtraOf :
              inst.hyperparameters.v[k] =
                 IF k \in DOMAIN DeclaredDefaults THEN DeclaredDefaults[k]
                 ELSE ExtraOf[k]

C2_Witness ==
    /\ inst.status = "ok"
    /\ \E k \in (DOMAIN ExtraOf) \cap (DOMAIN DeclaredDefaults) :
          /\ DeclaredDefaults[k] # ExtraOf[k]
          /\ inst.hyperparameters.v[k] = DeclaredDefaults[k]
    /\ \E k \in (DOMAIN ExtraOf) \ (DOMAIN DeclaredDefaults) :
          inst.hyperparameters.v[k] = ExtraOf[k]

\* C3: whenever the original constructor is invoked (so on every successful
\* instantiation) the record is {**extra, **declared_defaults, **remaining},
\* with the defaults declared at decoration time; it is already attached when
\* the original constructor runs, and that one receives exactly the remaining
\* keyword arguments.
C3_RecordIsMerge ==
    inst.old_init_called =>
        /\ inst.hyperparameters =
              Some(Merge(Merge(ExtraOf, DeclaredDefaults), RemainingKwargs))
        /\ inst.old_init_saw = inst.hyperparameters
        /\ inst.old_init_kwargs = RemainingKwargs

\* defaults {x:1, y:2}, extra {z:5}, call with y=9, after the constructor's
\* defaults were rebound
C3_Witness ==
    /\ inst.status = "ok"
    /\ cls.declared = CtorA
    /\ cls.ctor # cls.declared
    /\ cls.extra_parameters = <<Item("z", 5)>>
    /\ inst.kwargs = [k \in {"y"} |-> 9]
    /\ inst.hyperparameters.v = [k \in {"x", "y", "z"} |->
                                   IF k = "x" THEN 1 ELSE IF k = "y" THEN 9 ELSE 5]

C5_Claim ==
    (inst.called /\ Binds(cls.ctor, inst.args, inst.kwargs)) =>
        \/ inst.status = "ok"
        \/ inst.status = "ValueError" /\ Conflicts # {}

\* C5 (amended): a call with a positional argument is rejected by the decorated
\* constructor before anything else happens; a keyword call without an
\* override conflict is delegated with the remaining keyword arguments and
\* succeeds exactly when the original constructor accepts those.
C5_Amended ==
    inst.called =>
        /\ inst.args # <<>> =>
              /\ inst.status = "TypeError"
              /\ ~inst.old_init_called
              /\ inst.hyperparameters = None
        /\ (inst.args = <<>> /\ Conflicts = {}) =>
              /\ inst.old_init_called
              /\ inst.old_init_kwargs = RemainingKwargs
              /\ inst.status = "ok" <=> Binds(cls.ctor, <<>>, RemainingKwargs)
        /\ (inst.args = <<>> /\ Conflicts # {}) => inst.status = "ValueError"

C5_Witness ==
    /\ inst.called
    /\ inst.args # <<>>
    /\ Binds(cls.ctor, inst.args, inst.kwargs)
    /\ inst.status = "TypeError"

(* ---------------------------------------------------------------------- *)
(* Claims: drop_path and DropPath                                          *)
(* ---------------------------------------------------------------------- *)

\* C6: with training false (any drop_prob) or drop_prob = 0 (any training)
\* drop_path returns x itself, unchanged, and draws nothing.
C6_Passthrough ==
    (fw.called /\ (~fw.training \/ fw.drop_prob = 0)) =>
        /\ fw.same
        /\ fw.out = Lift(fw.x)
        /\ fw.draws = 0

C6_Witness ==
    /\ fw.called
    /\ fw.training
    /\ fw.drop_prob = 0
    /\ fw.same
    /\ Len(fw.x) = MaxBatch

\* C7 (as stated): the flag forward passes is always what net_opt returned when
\* the instance was constructed.
C7_Claim ==
    (fw.called /\ fw.via = "forward") => fw.training = dp.net_opt_training

\* C7 (amended): forward passes the instance's own training attribute and never
\* asks the run configuration again; a change of the run configuration leaves
\* the attribute alone, so it is what net_opt returned at construction until
\* train(mode) / eval() overwrites it.
C7_Amended ==
    [][/\ (fw' # fw /\ fw'.via = "forward") => fw'.training = dp.training
       /\ (dp.constructed /\ dp'.training # dp.training) =>
             (dp'.toggled /\ opt' = opt)
       /\ (dp'.constructed /\ ~dp'.toggled) =>
             dp'.training = dp'.net_opt_training]_vars

\* the configuration changed after construction and forward still passed the
\* flag from construction
C7_Witness ==
    /\ fw.called /\ fw.via = "forward"
    /\ ~dp.toggled
    /\ net_opt(opt).training # dp.net_opt_training
    /\ fw.training = dp.net_opt_training

\* C9: with training true and drop_prob in (0, 1] one outcome is drawn per
\* batch element and applied to the whole sample: a dropped sample is all 0, a
\* kept sample is x / keep_prob when scale_by_keep and keep_prob > 0 and x
\* otherwise; with drop_prob = 1 nothing is divided and the output is all 0.
C9_PerSample ==
    (fw.called /\ fw.training /\ fw.drop_prob \in 1..ProbDen) =>
        /\ fw.draws = Len(fw.x)
        /\ Len(fw.mask) = Len(fw.x)
        /\ Len(fw.out) = Len(fw.x)
        /\ \A b \in 1..Len(fw.x) :
              /\ Len(fw.out[b]) = Len(fw.x[b])
              /\ \A i \in 1..Len(fw.x[b]) :
                    IF fw.mask[b] = 0
                    THEN FracEq(fw.out[b][i], Frac(0, 1))
                    ELSE IF fw.scale_by_keep /\ fw.drop_prob < ProbDen
                    THEN FracEq(fw.out[b][i],
                                Frac(fw.x[b][i] * ProbDen, ProbDen - fw.drop_prob))
                    ELSE FracEq(fw.out[b][i], Frac(fw.x[b][i], 1))
        /\ fw.drop_prob = ProbDen =>
              /\ ~fw.divided
              /\ \A b \in 1..Len(fw.x) : \A i \in 1..Len(fw.x[b]) :
                    fw.out[b][i].n = 0 /\ fw.out[b][i].d # 0

\* one sample kept and rescaled, another dropped, in the same call
C9_Witness ==
    /\ fw.called /\ fw.training /\ fw.scale_by_keep
    /\ fw.drop_prob \in 1..(ProbDen - 1)
    /\ \E b1, b2 \in 1..Len(fw.x) : fw.mask[b1] = 1 /\ fw.mask[b2] = 0
    /\ \E b \in 1..Len(fw.x) : \E i \in 1..Len(fw.x[b]) :
          fw.mask[b] = 1 /\ fw.x[b][i] # 0 /\ ~FracEq(fw.out[b][i], Frac(fw.x[b][i], 1))

(* ---------------------------------------------------------------------- *)
(* Claims: pixel_unshuffle                                                 *)
(* ---------------------------------------------------------------------- *)

\* element [n, c, y, z] (0-based) of a 4-dimensional tensor
At(t, n, c, y, z) ==
    t.data[((n * t.shape[2] + c) * t.shape[3] + y) * t.shape[4] + z + 1]

\* the inverse pixel shuffle with upscale factor r:
\* out[n, c, y * r + i, z * r + j] = t[n, c * r^2 + i * r + j, y, z]
InversePixelShuffle(t, r) ==
    LET shape == <<t.shape[1], t.shape[2] \div (r * r), t.shape[3] * r,
                   t.shape[4] * r>>
    IN Tensor(shape,
              [f \in 1..Prod(shape) |->
                 LET n == (f - 1) \div (shape[2] * shape[3] * shape[4])
                     c == ((f - 1) \div (shape[3] * shape[4])) % shape[2]
                     yy == ((f - 1) \div shape[4]) % shape[3]
                     zz == (f - 1) % shape[4]
                 IN At(t, n, c * r * r + (yy % r) * r + (zz % r),
                       yy \div r, zz \div r)])

\* C8: for x of shape (b, c, h*scale, w*scale) the result has shape
\* (b, c*scale^2, h, w), out[n, ch*scale^2 + i*scale + j, y, z] =
\* x[n, ch, y*scale + i, z*scale + j], and the inverse pixel shuffle gives x back.
C8_Unshuffle ==
    (pu.status \in {"ok", "AssertionError"}
       /\ pu.x.shape[3] % pu.scale = 0 /\ pu.x.shape[4] % pu.scale = 0) =>
        LET s == pu.scale
            b == pu.x.shape[1]
            c == pu.x.shape[2]
            h == pu.x.shape[3] \div s
            w == pu.x.shape[4] \div s
        IN /\ pu.status = "ok"
           /\ pu.out.shape = <<b, c * s * s, h, w>>
           /\ Len(pu.out.data) = Len(pu.x.data)
           /\ \A n \in 0..(b - 1), ch \in 0..(c - 1), i \in 0..(s - 1),
                 j \in 0..(s - 1), y \in 0..(h - 1), z \in 0..(w - 1) :
                 At(pu.out, n, ch * s * s + i * s + j, y, z) =
                    At(pu.x, n, ch, y * s + i, z * s + j)
           /\ InversePixelShuffle(pu.out, s) = pu.x

C8_Witness ==
    /\ pu.status = "ok"
    /\ pu.scale = 2
    /\ pu.x.shape = <<2, 2, 4, 2>>
    /\ pu.out.shape = <<2, 8, 2, 1>>
    /\ pu.out.data # pu.x.data
    /\ InversePixelShuffle(pu.out, 2) = pu.x

(* ---------------------------------------------------------------------- *)
(* Claims: _no_grad_trunc_normal_                                          *)
(* ---------------------------------------------------------------------- *)

\* C10: for std > 0 and a < b every element lies in [a, b] when the call
\* returns; when mean is more than 2 * std outside [a, b] the warning is
\* emitted and the fill still completes.
C10_InRange ==
    (tn.status # "none" /\ tn.status # "input") =>
        /\ tn.status = "returned"
        /\ \A i \in 1..Len(tn.tensor) :
              /\ tn.tensor[i].k = "fin"
              /\ tn.a * ZRes <= tn.tensor[i].v
              /\ tn.tensor[i].v <= tn.b * ZRes
        /\ mean_far(tn.mean, tn.std, tn.a, tn.b) => tn.warned

\* the mean is more than 2 * std below a, the warning was emitted and the fill
\* completed inside [a, b]
C10_Witness ==
    /\ tn.status = "returned"
    /\ tn.mean < tn.a - 2 * tn.std
    /\ tn.warned
    /\ \A i \in 1..Len(tn.tensor) :
          /\ tn.tensor[i].k = "fin"
          /\ tn.a * ZRes <= tn.tensor[i].v
          /\ tn.tensor[i].v <= tn.b * ZRes

====
